---- MODULE Spec2Model ----
(***************************************************************************)
(* rgbman: the lighting state machine, its supervisor, the HTTP command    *)
(* surface, the colour channel and the device-driving task of              *)
(* src/src/main.rs, the DRAM register-bus driver of                        *)
(* src/src/auda0_e6k5_0101_dram.rs (construction and set_led_colour) and   *)
(* the addressable USB driver of src/src/gigabyte_rgb_fusion2_usb.rs.      *)
(*                                                                         *)
(* Brightness values are f32 in the program.  Here they are fixed-point    *)
(* integers with One standing for 1.0.  Every value a run can hold is      *)
(* 1.0 scaled by 0.2 a few times, or one minus such a value, so the         *)
(* fixed-point value and the f32 value agree on every comparison the code  *)
(* makes (> 0.08, != 1.0) and on every truncated colour byte.              *)
(***************************************************************************)
EXTENDS Integers, Sequences, FiniteSets, TLC

VARIABLES
    bq,        \* broadcast channel: commands retained for the supervisor's receiver
    missed,    \* broadcast channel: commands overwritten before the receiver read them
    published, \* history: the state carried by every command published so far
    dropped,   \* history: ids of the published commands that were overwritten
    tasks,     \* every state-machine task spawned so far, last_task is the last one
    chan,      \* colour channel (mpsc, capacity 8): values sent and not yet received
    emitted,   \* history: every value accepted by the colour channel
    srvPc,     \* device-driving task: "connect", "recv", "write" or "dead"
    nMobo,     \* number of motherboard controllers of the current session
    nDram,     \* number of DRAM controllers of the current session
    cur,       \* the value the device-driving task is writing
    wi,        \* index of the controller the next set_all_leds goes to
    writes,    \* history: every set_all_leds call that succeeded
    srvErr,    \* history: number of driver errors of the device-driving task
    lim,       \* limits of the exploration: commands published, values emitted,
               \* and the hours the local clock may show
    dPc,       \* I2cDram::new: position
    dAddrs,    \* I2cDram::new: the configured addresses
    dIdx,      \* I2cDram::new: index of the address being initialised
    dReg,      \* I2cDram::new: probe register or configuration index being read
    dBus,      \* I2cDram::new: history of the bus transactions issued
    dProbes,   \* I2cDram::new: history of the probe bytes read back
    dLedCount, \* I2cDram::new: config_table[2]
    dBad,      \* I2cDram::new: history, bus position of the first mismatched probe
    lPc,       \* I2cDram::set_led_colour: position
    lAddrs,    \* I2cDram: self.addresses
    lLedCount, \* I2cDram: self.led_count
    lCol,      \* I2cDram::set_led_colour: the arguments <<r, g, b>>
    lIdx,      \* I2cDram::set_led_colour: index of the address being written
    lStep,     \* I2cDram::set_led_colour: transaction index inside the address
    lBus,      \* history: the bus transactions the current call has issued
    lFailAt,   \* history: position of the transaction of the current call that failed
    lCalls,    \* history: number of set_led_colour calls made
    uPc,       \* Fusion2Argb: position inside new or set_led_colour
    uRep,      \* Fusion2Argb::new: bytes 44..51 of the feature report read back
    bo1,       \* Fusion2Argb: self.bo1
    bo2,       \* Fusion2Argb: self.bo2
    effect_mask, \* Fusion2Argb: self.effect_mask
    uCol,      \* Fusion2Argb::set_led_colour: the arguments <<r, g, b>>
    uStrip,    \* stream_strip_solid: its arguments, offset_bytes and leds_left
    uLog,      \* history: every feature report sent
    uCalls     \* history: number of set_led_colour calls made

mainVars == <<bq, missed, published, dropped, tasks, chan, emitted,
              srvPc, nMobo, nDram, cur, wi, writes, srvErr, lim>>
dramVars == <<dPc, dAddrs, dIdx, dReg, dBus, dProbes, dLedCount, dBad>>
ledVars == <<lPc, lAddrs, lLedCount, lCol, lIdx, lStep, lBus, lFailAt, lCalls>>
usbVars == <<uPc, uRep, bo1, bo2, effect_mask, uCol, uStrip, uLog, uCalls>>
driverVars == <<dramVars, ledVars, usbVars>>
vars == <<bq, missed, published, dropped, tasks, chan, emitted,
          srvPc, nMobo, nDram, cur, wi, writes, srvErr, lim,
          dPc, dAddrs, dIdx, dReg, dBus, dProbes, dLedCount, dBad,
          lPc, lAddrs, lLedCount, lCol, lIdx, lStep, lBus, lFailAt, lCalls,
          uPc, uRep, bo1, bo2, effect_mask, uCol, uStrip, uLog, uCalls>>

----------------------------------------------------------------------------
(* Bounds of the exploration *)

MaxPub == 2
MaxEmit == 3

----------------------------------------------------------------------------
(* enum Mode, enum State and the f32 constants of run_state_machine *)

Modes == {"On", "Off"}

One == 10 * 1000
Threshold == (8 * One) \div 100

DecayNone(x) == (x * 10) \div 10

Decay(x) == (x * 2) \div 10

Fading(m, r) == [k |-> "Fading", mode |-> m, raw |-> r]
Turning(m) == [k |-> "Turning", mode |-> m]
Idle(m) == [k |-> "Idle", mode |-> m]
SetColourThen(x, s) == [k |-> "SetColourThen", x |-> x, next |-> s]
Gone == [k |-> "Gone"]

FadeDelayMs == 80
PollMs == 300000
LongWaitMs == 10800000

Hours == 0 .. 23

----------------------------------------------------------------------------
(* HTTP command surface and the broadcast channel (capacity 8) *)

BroadcastCap == 8

Paths == {"/start_on", "/start_off", "/stop", "/", "/favicon.ico"}

\* tokio broadcast Sender::send with one lagging receiver: the ring keeps the
\* newest BroadcastCap values, an older unread value is overwritten.
BroadcastSend(st) ==
    LET item == [n |-> Len(published) + 1, st |-> st] IN
    /\ published' = Append(published, st)
    /\ IF Len(bq) = BroadcastCap
          THEN /\ bq' = Append(Tail(bq), item)
               /\ missed' = missed + 1
               /\ dropped' = dropped \cup {Head(bq).n}
          ELSE /\ bq' = Append(bq, item)
               /\ UNCHANGED <<missed, dropped>>

handle(path) ==
    /\ IF path = "/start_on"
          THEN Len(published) < lim.pub /\ BroadcastSend(Fading("On", One))
          ELSE IF path = "/start_off"
          THEN Len(published) < lim.pub /\ BroadcastSend(Fading("Off", One))
          ELSE UNCHANGED <<bq, missed, published, dropped>>
    /\ UNCHANGED <<tasks, chan, emitted, srvPc, nMobo, nDram, cur, wi, writes,
                   srvErr, lim>>
    /\ UNCHANGED driverVars

Handle == \E path \in Paths : handle(path)

----------------------------------------------------------------------------
(* Supervisor task *)

ChanCap == 8

NewTask(st, long, cmd) ==
    [status |-> "live", state |-> st, long |-> long, pc |-> "run", dur |-> 0,
     pend |-> Gone, cmd |-> cmd, init |-> st, initLong |-> long,
     cancelledAt |-> -1, unsent |-> -1]

LastTaskIsNoneOrFinished ==
    IF tasks = <<>> THEN TRUE ELSE tasks[Len(tasks)].status = "failed"

LastTaskIsNone == tasks = <<>>

AbortNothing(t) == t

AbortAfterPendingSend(t) ==
    IF t.status = "live" /\ ~(t.pc = "run" /\ t.state.k = "SetColourThen")
       THEN [t EXCEPT !.status = "aborted", !.state = Gone, !.pc = "gone",
                      !.dur = 0, !.pend = Gone, !.long = FALSE]
       ELSE t

AbortWhenSleeping(t) ==
    IF t.status = "live" /\ t.pc # "run"
       THEN [t EXCEPT !.status = "aborted", !.state = Gone, !.pc = "gone",
                      !.dur = 0, !.pend = Gone, !.long = FALSE]
       ELSE t

\* JoinHandle::abort: the task is dropped at the await it is suspended at; a task
\* that already returned is left as it is.
Abort(t) ==
    IF t.status = "live"
       THEN [t EXCEPT !.status = "aborted", !.state = Gone, !.pc = "gone",
                      !.dur = 0, !.pend = Gone, !.long = FALSE]
       ELSE t

\* History: the number of values emitted when the abort of the task was
\* requested, and the value the task was then waiting to send on the full
\* colour channel (-1: none).
Cancelled(t) ==
    [t EXCEPT !.cancelledAt = Len(emitted),
              !.unsent = IF t.status = "live" /\ t.pc = "run"
                            /\ t.state.k = "SetColourThen"
                            /\ Len(chan) = ChanCap
                            THEN t.state.x ELSE -1]

SupStartDefault ==
    /\ LastTaskIsNone
    /\ tasks' = Append(tasks, NewTask(Turning("On"), FALSE, 0))
    /\ UNCHANGED <<bq, missed, published, dropped, chan, emitted, srvPc, nMobo,
                   nDram, cur, wi, writes, srvErr, lim>>
    /\ UNCHANGED driverVars

SupRecvSkipOnLag ==
    /\ ~LastTaskIsNone
    /\ IF missed > 0
          THEN /\ missed' = 0
               /\ bq' = Tail(bq)
               /\ UNCHANGED tasks
          ELSE /\ bq # <<>>
               /\ bq' = Tail(bq)
               /\ tasks' = Append(
                      [tasks EXCEPT ![Len(tasks)] = Abort(Cancelled(@))],
                      NewTask(Head(bq).st, TRUE, Head(bq).n))
               /\ UNCHANGED missed
    /\ UNCHANGED <<published, dropped, chan, emitted, srvPc, nMobo, nDram, cur,
                   wi, writes, srvErr, lim>>
    /\ UNCHANGED driverVars

\* rx.recv(): Err(Lagged) when values were overwritten (the receiver then stands
\* at the oldest retained value), else the oldest retained value.
SupRecv ==
    /\ ~LastTaskIsNone
    /\ IF missed > 0
          THEN /\ missed' = 0
               /\ UNCHANGED <<bq, tasks>>
          ELSE /\ bq # <<>>
               /\ bq' = Tail(bq)
               /\ tasks' = Append(
                      [tasks EXCEPT ![Len(tasks)] = Abort(Cancelled(@))],
                      NewTask(Head(bq).st, TRUE, Head(bq).n))
               /\ UNCHANGED missed
    /\ UNCHANGED <<published, dropped, chan, emitted, srvPc, nMobo, nDram, cur,
                   wi, writes, srvErr, lim>>
    /\ UNCHANGED driverVars

----------------------------------------------------------------------------
(* run_state_machine: one action per arm of the match, one per wake-up *)

Runnable(i) == tasks[i].status = "live" /\ tasks[i].pc = "run"

SMUnchanged ==
    /\ UNCHANGED <<bq, missed, published, dropped, srvPc, nMobo, nDram, cur, wi,
                   writes, srvErr, lim>>
    /\ UNCHANGED driverVars

\* State::SetColourThen(x, new_state): send(x).await?  The send fails when the
\* receiver is dropped, waits while the channel is full.
SMSetColour(i) ==
    LET t == tasks[i] IN
    /\ Runnable(i)
    /\ t.state.k = "SetColourThen"
    /\ IF srvPc = "dead"
          THEN /\ tasks' = [tasks EXCEPT ![i] =
                      [t EXCEPT !.status = "failed", !.state = Gone, !.pc = "gone",
                                !.long = FALSE]]
               /\ UNCHANGED <<chan, emitted>>
          ELSE /\ Len(chan) < ChanCap
               /\ Len(emitted) < lim.emit
               /\ chan' = Append(chan, [n |-> Len(emitted) + 1, x |-> t.state.x,
                                        run |-> i])
               /\ emitted' = Append(emitted, [run |-> i, x |-> t.state.x])
               /\ tasks' = [tasks EXCEPT ![i].state = t.state.next]
    /\ SMUnchanged

FadeXReversed(mode, raw_x) == IF mode = "On" THEN raw_x - One ELSE raw_x

FadeXSwapped(mode, raw_x) == IF mode = "Off" THEN One - raw_x ELSE raw_x

FadeX(mode, raw_x) == IF mode = "On" THEN One - raw_x ELSE raw_x

SMFading(i) ==
    LET t == tasks[i]
        mode == t.state.mode
        raw_x == t.state.raw
        x == FadeX(mode, raw_x)
        nxt == SetColourThen(Decay(x), Fading(mode, Decay(raw_x)))
    IN
    /\ Runnable(i)
    /\ t.state.k = "Fading"
    /\ IF raw_x > Threshold
          THEN IF raw_x # One
                  THEN tasks' = [tasks EXCEPT ![i].pc = "delay",
                                              ![i].dur = FadeDelayMs,
                                              ![i].pend = nxt]
                  ELSE tasks' = [tasks EXCEPT ![i].state = nxt]
          ELSE tasks' = [tasks EXCEPT ![i].state = Turning(mode)]
    /\ UNCHANGED <<chan, emitted>>
    /\ SMUnchanged

TurningValueSwapped(mode) == IF mode = "On" THEN 0 ELSE One

TurningValue(mode) == IF mode = "On" THEN One ELSE 0

SMTurning(i) ==
    LET t == tasks[i] IN
    /\ Runnable(i)
    /\ t.state.k = "Turning"
    /\ tasks' = [tasks EXCEPT ![i].state =
                    SetColourThen(TurningValue(t.state.mode), Idle(t.state.mode))]
    /\ UNCHANGED <<chan, emitted>>
    /\ SMUnchanged

\* State::Idle(mode): the first sleep of the arm.
SMIdle(i) ==
    LET t == tasks[i] IN
    /\ Runnable(i)
    /\ t.state.k = "Idle"
    /\ tasks' = [tasks EXCEPT ![i].pc = "idle",
                              ![i].dur = IF ~t.long THEN PollMs ELSE LongWaitMs]
    /\ UNCHANGED <<chan, emitted>>
    /\ SMUnchanged

IdleNextFadeAgain(mode, hour) ==
    IF hour >= 8 /\ hour < 18
       THEN [st |-> Fading("On", One), rearm |-> FALSE]
       ELSE IF hour >= 18
       THEN [st |-> Fading("Off", One), rearm |-> FALSE]
       ELSE [st |-> Turning(mode), rearm |-> TRUE]

IdleNextAfterSix(mode, hour) ==
    IF hour >= 8 /\ hour <= 18
       THEN IF mode = "Off"
               THEN [st |-> Fading("On", One), rearm |-> FALSE]
               ELSE [st |-> Turning("On"), rearm |-> TRUE]
       ELSE IF hour > 18
       THEN IF mode = "On"
               THEN [st |-> Fading("Off", One), rearm |-> FALSE]
               ELSE [st |-> Turning("Off"), rearm |-> TRUE]
       ELSE [st |-> Turning(mode), rearm |-> TRUE]

\* The successor of Idle(mode) at local hour `hour`, and whether the arm sleeps
\* five more minutes before taking it.
IdleNext(mode, hour) ==
    IF hour >= 8 /\ hour < 18
       THEN IF mode = "Off"
               THEN [st |-> Fading("On", One), rearm |-> FALSE]
               ELSE [st |-> Turning("On"), rearm |-> TRUE]
       ELSE IF hour >= 18
       THEN IF mode = "On"
               THEN [st |-> Fading("Off", One), rearm |-> FALSE]
               ELSE [st |-> Turning("Off"), rearm |-> TRUE]
       ELSE [st |-> Turning(mode), rearm |-> TRUE]

SMIdleWakeKeepFlag(i) ==
    LET t == tasks[i] IN
    /\ t.status = "live"
    /\ t.pc = "idle"
    /\ \E hour \in lim.hours :
          LET nx == IdleNext(t.state.mode, hour) IN
          IF nx.rearm
             THEN tasks' = [tasks EXCEPT ![i].pc = "delay",
                                         ![i].dur = PollMs, ![i].pend = nx.st]
             ELSE tasks' = [tasks EXCEPT ![i].pc = "run",
                                         ![i].dur = 0, ![i].state = nx.st]
    /\ UNCHANGED <<chan, emitted>>
    /\ SMUnchanged

\* The first sleep of the Idle arm is over: the flag is cleared, the hour is read.
SMIdleWake(i) ==
    LET t == tasks[i] IN
    /\ t.status = "live"
    /\ t.pc = "idle"
    /\ \E hour \in lim.hours :
          LET nx == IdleNext(t.state.mode, hour) IN
          IF nx.rearm
             THEN tasks' = [tasks EXCEPT ![i].long = FALSE, ![i].pc = "delay",
                                         ![i].dur = PollMs, ![i].pend = nx.st]
             ELSE tasks' = [tasks EXCEPT ![i].long = FALSE, ![i].pc = "run",
                                         ![i].dur = 0, ![i].state = nx.st]
    /\ UNCHANGED <<chan, emitted>>
    /\ SMUnchanged

\* A sleep inside an arm is over: the arm's value becomes the state.
SMDelayDone(i) ==
    LET t == tasks[i] IN
    /\ t.status = "live"
    /\ t.pc = "delay"
    /\ tasks' = [tasks EXCEPT ![i].state = t.pend, ![i].pc = "run",
                              ![i].dur = 0, ![i].pend = Gone]
    /\ UNCHANGED <<chan, emitted>>
    /\ SMUnchanged

SetColour == \E i \in 1 .. Len(tasks) : SMSetColour(i)
FadingStep == \E i \in 1 .. Len(tasks) : SMFading(i)
TurningStep == \E i \in 1 .. Len(tasks) : SMTurning(i)
IdleStep == \E i \in 1 .. Len(tasks) : SMIdle(i)
IdleWake == \E i \in 1 .. Len(tasks) : SMIdleWake(i)
DelayDone == \E i \in 1 .. Len(tasks) : SMDelayDone(i)

----------------------------------------------------------------------------
(* run_rgb_server: the device-driving task *)

NoCur == [n |-> 0, x |-> 0, run |-> 0, behind |-> 0]

\* `as u8` of a non-negative f32: truncation, saturating at 255.
AsU8(v) == IF v > 255 THEN 255 ELSE IF v < 0 THEN 0 ELSE v

Weighted(w, x) == AsU8((w * x) \div One)

MoboColor(x) == <<Weighted(54, x), Weighted(28, x), Weighted(15, x)>>
DramColor(x) == <<Weighted(89, x), Weighted(60, x), Weighted(46, x)>>

SrvUnchanged ==
    /\ UNCHANGED <<bq, missed, published, dropped, tasks, emitted, lim>>
    /\ UNCHANGED driverVars

\* A `?` returned an error: the task ends, the receiver and the values it holds
\* are dropped.
SrvDie ==
    /\ srvPc' = "dead"
    /\ srvErr' = srvErr + 1
    /\ chan' = <<>>
    /\ cur' = NoCur
    /\ wi' = 0
    /\ nMobo' = 0
    /\ nDram' = 0
    /\ UNCHANGED writes

\* What the OpenRGB server may report: <<motherboard controllers, DRAM controllers>>.
ControllerCounts == {<<0, 0>>, <<1, 1>>}

\* connect and the two controller queries.
SrvConnect ==
    /\ srvPc = "connect"
    /\ \/ SrvDie
       \/ \E c \in ControllerCounts :
             /\ srvPc' = "recv"
             /\ nMobo' = c[1]
             /\ nDram' = c[2]
             /\ UNCHANGED <<chan, cur, wi, writes, srvErr>>
    /\ SrvUnchanged

RecvNewest(q) == [item |-> q[Len(q)], rest |-> SubSeq(q, 1, Len(q) - 1)]

\* new_led_state.recv(): the oldest value of the channel.
Recv(q) == [item |-> Head(q), rest |-> Tail(q)]

SrvRecv ==
    /\ srvPc = "recv"
    /\ chan # <<>>
    /\ LET r == Recv(chan) IN
       /\ chan' = r.rest
       /\ IF nMobo + nDram = 0
             THEN UNCHANGED <<srvPc, cur, wi>>
             ELSE /\ srvPc' = "write"
                  /\ cur' = [n |-> r.item.n, x |-> r.item.x, run |-> r.item.run,
                             behind |-> Len(r.rest)]
                  /\ wi' = 1
    /\ UNCHANGED <<nMobo, nDram, writes, srvErr>>
    /\ SrvUnchanged

\* One set_all_leds call: the motherboard controllers first, then the DRAM ones.
SrvWrite ==
    /\ srvPc = "write"
    /\ \/ SrvDie
       \/ /\ writes' = Append(writes,
                 [n |-> cur.n, run |-> cur.run, x |-> cur.x,
                  dev |-> IF wi <= nMobo THEN "mobo" ELSE "dram",
                  col |-> IF wi <= nMobo THEN MoboColor(cur.x) ELSE DramColor(cur.x),
                  stale |-> tasks[cur.run].cancelledAt >= 0])
          /\ IF wi = nMobo + nDram
                THEN /\ srvPc' = "recv"
                     /\ cur' = NoCur
                     /\ wi' = 0
                ELSE /\ wi' = wi + 1
                     /\ UNCHANGED <<srvPc, cur>>
          /\ UNCHANGED <<chan, nMobo, nDram, srvErr>>
    /\ SrvUnchanged

----------------------------------------------------------------------------
(* The program after main has spawned its tasks *)

DramIdle ==
    /\ dPc = "off"
    /\ dAddrs = <<>>
    /\ dIdx = 0
    /\ dReg = 0
    /\ dBus = <<>>
    /\ dProbes = <<>>
    /\ dLedCount = 0
    /\ dBad = 0

LedIdle ==
    /\ lPc = "off"
    /\ lAddrs = <<>>
    /\ lLedCount = 0
    /\ lCol = <<0, 0, 0>>
    /\ lIdx = 0
    /\ lStep = 0
    /\ lBus = <<>>
    /\ lFailAt = 0
    /\ lCalls = 0

NoStrip == [hdr |-> 0, bo |-> <<0, 1, 2>>, num_leds |-> 0, offset_bytes |-> 0,
            leds_left |-> 0, ret |-> "off"]

UsbIdle ==
    /\ uPc = "off"
    /\ uRep = [i \in 44 .. 51 |-> 0]
    /\ bo1 = <<0, 1, 2>>
    /\ bo2 = <<0, 1, 2>>
    /\ effect_mask = 0
    /\ uCol = <<0, 0, 0>>
    /\ uStrip = NoStrip
    /\ uLog = <<>>
    /\ uCalls = 0

\* No driver of this repository is in use: main.rs drives the hardware through
\* the OpenRGB server.
DriversIdle == DramIdle /\ LedIdle /\ UsbIdle

\* The state after main has spawned its tasks; the local clock may show any
\* hour of `hours`.
MainInitAt(maxPub, maxEmit, hours) ==
    /\ bq = <<>>
    /\ missed = 0
    /\ published = <<>>
    /\ dropped = {}
    /\ tasks = <<>>
    /\ chan = <<>>
    /\ emitted = <<>>
    /\ srvPc = "connect"
    /\ nMobo = 0
    /\ nDram = 0
    /\ cur = NoCur
    /\ wi = 0
    /\ writes = <<>>
    /\ srvErr = 0
    /\ lim = [pub |-> maxPub, emit |-> maxEmit, hours |-> hours]

MainInit(maxPub, maxEmit) == MainInitAt(maxPub, maxEmit, Hours)

Init == MainInit(MaxPub, MaxEmit) /\ DriversIdle

Next ==
    \/ Handle
    \/ SupStartDefault
    \/ SupRecv
    \/ SetColour
    \/ FadingStep
    \/ TurningStep
    \/ IdleStep
    \/ IdleWake
    \/ DelayDone
    \/ SrvConnect
    \/ SrvRecv
    \/ SrvWrite

Spec == Init /\ [][Next]_vars

----------------------------------------------------------------------------
(* I2cDram::new: one action per bus transaction *)

MaxAddrs == 2

AddrSamples == {112, 113}
ByteSamples == {0, 2, 255}

\* All address lists of length at most n over AddrSamples.
AddrLists(n) == UNION {[1 .. k -> AddrSamples] : k \in 0 .. n}

ProbeFirst == 173
ProbeLast == 175
ConfigLen == 64
ConfigBase == 7168
EnableReg1 == 32800
EnableReg2 == 32928

\* The 16-bit register address as register_read and register_write send it.
RegWord(reg) == ((reg * 256) % 65536) + ((reg \div 256) % 256)

ProbeExpected(i) == i - 160

\* What a probe register may answer: the expected byte or another one.
ProbeReplies(i) == {ProbeExpected(i), ProbeExpected(i) + 1} \cup ByteSamples

MainIdle == UNCHANGED <<mainVars, ledVars, usbVars>>

DramFail ==
    /\ dPc' = "io_error"
    /\ UNCHANGED <<dAddrs, dIdx, dReg, dBus, dProbes, dLedCount, dBad>>

\* The address after dIdx is initialised next, or the configuration block is read.
DramNextAddress ==
    IF dIdx < Len(dAddrs)
       THEN dPc' = "select" /\ dIdx' = dIdx + 1 /\ dReg' = 0
       ELSE dPc' = "config" /\ dIdx' = dIdx /\ dReg' = 0

\* I2c::from_path("/dev/i2c-2")
DramOpen ==
    /\ dPc = "open"
    /\ \/ DramFail
       \/ /\ IF dAddrs = <<>>
                THEN dPc' = "config" /\ dIdx' = 0
                ELSE dPc' = "select" /\ dIdx' = 1
          /\ UNCHANGED <<dAddrs, dReg, dBus, dProbes, dLedCount, dBad>>
    /\ MainIdle

\* smbus_set_slave_address(*address, false)
DramSelect ==
    /\ dPc = "select"
    /\ \/ DramFail
       \/ /\ dBus' = Append(dBus, [op |-> "set_slave_address", arg |-> dAddrs[dIdx],
                                   val |-> 0])
          /\ dPc' = "presence"
          /\ UNCHANGED <<dAddrs, dIdx, dReg, dProbes, dLedCount, dBad>>
    /\ MainIdle

\* smbus_read_byte()
DramPresence ==
    /\ dPc = "presence"
    /\ \/ DramFail
       \/ /\ dBus' = Append(dBus, [op |-> "read_byte", arg |-> 0, val |-> 0])
          /\ dPc' = "probe"
          /\ dReg' = ProbeFirst
          /\ UNCHANGED <<dAddrs, dIdx, dProbes, dLedCount, dBad>>
    /\ MainIdle

\* Variant without the early return: the mismatch is noted and the loop goes on.
DramProbeNoReturn ==
    /\ dPc = "probe"
    /\ \/ DramFail
       \/ \E res \in ProbeReplies(dReg) :
             /\ dBus' = Append(dBus, [op |-> "read_byte_data", arg |-> dReg,
                                      val |-> 0])
             /\ dProbes' = Append(dProbes, [idx |-> dIdx, reg |-> dReg, res |-> res])
             /\ dBad' = IF res # ProbeExpected(dReg) /\ dBad = 0
                           THEN Len(dBus) + 1 ELSE dBad
             /\ IF dReg = ProbeLast
                   THEN dPc' = "enable" /\ dReg' = 1
                   ELSE dPc' = "probe" /\ dReg' = dReg + 1
             /\ UNCHANGED <<dAddrs, dIdx, dLedCount>>
    /\ MainIdle

\* smbus_read_byte_data(i) for i in 0xAD..0xB0, compared with i - 0xA0
DramProbe ==
    /\ dPc = "probe"
    /\ \/ DramFail
       \/ \E res \in ProbeReplies(dReg) :
             /\ dBus' = Append(dBus, [op |-> "read_byte_data", arg |-> dReg,
                                      val |-> 0])
             /\ dProbes' = Append(dProbes, [idx |-> dIdx, reg |-> dReg, res |-> res])
             /\ IF res # ProbeExpected(dReg)
                   THEN /\ dPc' = "bad_dram"
                        /\ dBad' = Len(dBus) + 1
                        /\ UNCHANGED dReg
                   ELSE /\ IF dReg = ProbeLast
                              THEN dPc' = "enable" /\ dReg' = 1
                              ELSE dPc' = "probe" /\ dReg' = dReg + 1
                        /\ UNCHANGED dBad
             /\ UNCHANGED <<dAddrs, dIdx, dLedCount>>
    /\ MainIdle

\* register_write(0x8020, 1) and register_write(0x80A0, 1): four transactions.
EnableStep(k) ==
    IF k = 1 THEN [op |-> "write_word_data", arg |-> 0, val |-> RegWord(EnableReg1)]
    ELSE IF k = 3 THEN [op |-> "write_word_data", arg |-> 0, val |-> RegWord(EnableReg2)]
    ELSE [op |-> "write_byte_data", arg |-> 1, val |-> 1]

DramEnable ==
    /\ dPc = "enable"
    /\ \/ DramFail
       \/ /\ dBus' = Append(dBus, EnableStep(dReg))
          /\ IF dReg = 4
                THEN DramNextAddress
                ELSE dPc' = "enable" /\ dReg' = dReg + 1 /\ dIdx' = dIdx
          /\ UNCHANGED <<dAddrs, dProbes, dLedCount, dBad>>
    /\ MainIdle

\* register_read(0x1C00 + i) for i in 0..64: transaction 2i selects the register,
\* transaction 2i + 1 reads the byte; config_table[2] is the LED count.
DramConfig ==
    /\ dPc = "config"
    /\ \/ DramFail
       \/ /\ dReg % 2 = 0
          /\ dBus' = Append(dBus, [op |-> "write_word_data", arg |-> 0,
                                   val |-> RegWord(ConfigBase + dReg \div 2)])
          /\ dReg' = dReg + 1
          /\ UNCHANGED <<dPc, dAddrs, dIdx, dProbes, dLedCount, dBad>>
       \/ /\ dReg % 2 = 1
          /\ \E v \in ByteSamples :
                /\ dBus' = Append(dBus, [op |-> "read_byte_data", arg |-> 129,
                                         val |-> 0])
                /\ dLedCount' = IF dReg \div 2 = 2 THEN v ELSE dLedCount
                /\ IF dReg = 2 * ConfigLen - 1
                      THEN dPc' = "ok" /\ dReg' = 0
                      ELSE dPc' = "config" /\ dReg' = dReg + 1
          /\ UNCHANGED <<dAddrs, dIdx, dProbes, dBad>>
    /\ MainIdle

MainOff ==
    /\ bq = <<>>
    /\ missed = 0
    /\ published = <<>>
    /\ dropped = {}
    /\ tasks = <<>>
    /\ chan = <<>>
    /\ emitted = <<>>
    /\ srvPc = "off"
    /\ nMobo = 0
    /\ nDram = 0
    /\ cur = NoCur
    /\ wi = 0
    /\ writes = <<>>
    /\ srvErr = 0
    /\ lim = [pub |-> 0, emit |-> 0, hours |-> {}]

DramInit ==
    /\ MainOff
    /\ LedIdle
    /\ UsbIdle
    /\ dPc = "open"
    /\ dAddrs \in AddrLists(MaxAddrs)
    /\ dIdx = 0
    /\ dReg = 0
    /\ dBus = <<>>
    /\ dProbes = <<>>
    /\ dLedCount = 0
    /\ dBad = 0

DramNext ==
    \/ DramOpen
    \/ DramSelect
    \/ DramPresence
    \/ DramProbe
    \/ DramEnable
    \/ DramConfig

DramSpec == DramInit /\ [][DramNext]_vars

----------------------------------------------------------------------------
(* I2cDram::set_led_colour: one action per bus transaction *)

MaxLeds == 2
MaxLedCalls == 2

ColourSamples == {<<1, 2, 3>>, <<255, 0, 128>>}

BlockBase == 33024

DramIdleAll == UNCHANGED <<mainVars, dramVars, usbVars>>

LedFailIgnored ==
    /\ lFailAt' = Len(lBus) + 1
    /\ UNCHANGED <<lPc, lAddrs, lLedCount, lCol, lIdx, lStep, lBus, lCalls>>

\* A `?` inside set_led_colour returned the error of a bus transaction.
LedFail ==
    /\ lPc' = "io_error"
    /\ lFailAt' = Len(lBus) + 1
    /\ UNCHANGED <<lAddrs, lLedCount, lCol, lIdx, lStep, lBus, lCalls>>

\* The next address of self.addresses, or Ok(()).
LedNextAddress ==
    IF lIdx < Len(lAddrs)
       THEN lPc' = "select" /\ lIdx' = lIdx + 1 /\ lStep' = 0
       ELSE lPc' = "ok" /\ lIdx' = lIdx /\ lStep' = 0

\* set_led_colour(r, g, b) is called on the constructed driver.
LedCall ==
    /\ lPc \in {"ready", "ok", "io_error"}
    /\ lCalls < MaxLedCalls
    /\ \E c \in ColourSamples : lCol' = c
    /\ lCalls' = lCalls + 1
    /\ lBus' = <<>>
    /\ lFailAt' = 0
    /\ lStep' = 0
    /\ IF lAddrs = <<>>
          THEN lPc' = "ok" /\ lIdx' = 0
          ELSE lPc' = "select" /\ lIdx' = 1
    /\ UNCHANGED <<lAddrs, lLedCount>>
    /\ DramIdleAll

\* smbus_set_slave_address(*address, false)
LedSelect ==
    /\ lPc = "select"
    /\ \/ LedFail
       \/ /\ lBus' = Append(lBus, [op |-> "set_slave_address", arg |-> lAddrs[lIdx],
                                   val |-> 0])
          /\ lPc' = "enable"
          /\ lStep' = 1
          /\ UNCHANGED <<lAddrs, lLedCount, lCol, lIdx, lFailAt, lCalls>>
    /\ DramIdleAll

\* register_write(0x8020, 1) and register_write(0x80A0, 1): four transactions.
LedEnable ==
    /\ lPc = "enable"
    /\ \/ LedFail
       \/ /\ lBus' = Append(lBus, EnableStep(lStep))
          /\ IF lStep < 4
                THEN lPc' = "enable" /\ lStep' = lStep + 1 /\ lIdx' = lIdx
                ELSE IF lLedCount > 0
                THEN lPc' = "block" /\ lStep' = 0 /\ lIdx' = lIdx
                ELSE LedNextAddress
          /\ UNCHANGED <<lAddrs, lLedCount, lCol, lFailAt, lCalls>>
    /\ DramIdleAll

BlockPayloadRgb(col) == <<col[1], col[2], col[3]>>

\* &[r, b, g]
BlockPayload(col) == <<col[1], col[3], col[2]>>

\* register_write_block(0x8100 + 3 * i, &[r, b, g]) for i in 0..led_count:
\* transaction 2i selects the register, transaction 2i + 1 writes the block.
LedBlock ==
    /\ lPc = "block"
    /\ \/ LedFail
       \/ /\ lStep % 2 = 0
          /\ lBus' = Append(lBus,
                 [op |-> "write_word_data", arg |-> 0,
                  val |-> RegWord((BlockBase + 3 * (lStep \div 2)) % 65536)])
          /\ lStep' = lStep + 1
          /\ UNCHANGED <<lPc, lAddrs, lLedCount, lCol, lIdx, lFailAt, lCalls>>
       \/ /\ lStep % 2 = 1
          /\ lBus' = Append(lBus, [op |-> "write_block_data", arg |-> 3,
                                   val |-> 3, data |-> BlockPayload(lCol)])
          /\ IF lStep = 2 * lLedCount - 1
                THEN LedNextAddress
                ELSE lPc' = "block" /\ lStep' = lStep + 1 /\ lIdx' = lIdx
          /\ UNCHANGED <<lAddrs, lLedCount, lCol, lFailAt, lCalls>>
    /\ DramIdleAll

\* A driver I2cDram::new returned: any address list, any LED count up to MaxLeds.
LedInit ==
    /\ MainOff
    /\ DramIdle
    /\ UsbIdle
    /\ lPc = "ready"
    /\ lAddrs \in AddrLists(MaxAddrs)
    /\ lLedCount \in 0 .. MaxLeds
    /\ lCol = <<0, 0, 0>>
    /\ lIdx = 0
    /\ lStep = 0
    /\ lBus = <<>>
    /\ lFailAt = 0
    /\ lCalls = 0

LedNext ==
    \/ LedCall
    \/ LedSelect
    \/ LedEnable
    \/ LedBlock

LedSpec == LedInit /\ [][LedNext]_vars

----------------------------------------------------------------------------
(* Fusion2Argb: new, parse_byteorders, stream_strip_solid, set_led_colour *)

MaxByte == 3
MaxStripLeds == 100
MaxUsbCalls == 3

RID == 204
HDR_DLED1_RGB == 88
HDR_DLED2_RGB == 89
HDR_DLED3_RGB == 98
LED3 == 2
LEDS_PER_PACKET == 19
PacketLen == 64
DefaultLeds == 60
DisableReg == 50
ApplyReg == 40

RECURSIVE BitOr(_, _)
\* a | b on u8
BitOr(a, b) ==
    IF a = 0 THEN b
    ELSE IF b = 0 THEN a
    ELSE (IF a % 2 = 1 \/ b % 2 = 1 THEN 1 ELSE 0) + 2 * BitOr(a \div 2, b \div 2)

\* le32(i): the little-endian u32 at rep[i..i+4]
Le32(rep, i) ==
    rep[i] + rep[i + 1] * 256 + rep[i + 2] * 65536 + rep[i + 3] * 16777216

\* to_trip(bo)
ToTrip(bo) == <<(bo \div 65536) % 256, (bo \div 256) % 256, bo % 256>>

ValidInRange(t) == t[1] <= 2 /\ t[2] <= 2 /\ t[3] <= 2

\* valid((r, g, b))
Valid(t) ==
    /\ t[1] <= 2 /\ t[2] <= 2 /\ t[3] <= 2
    /\ t[1] # t[2] /\ t[2] # t[3] /\ t[1] # t[3]

IdentityOrder == <<0, 1, 2>>

ParseByteorders(rep) ==
    LET b1 == ToTrip(Le32(rep, 44))
        b2 == ToTrip(Le32(rep, 48))
    IN <<IF Valid(b1) THEN b1 ELSE IdentityOrder,
         IF Valid(b2) THEN b2 ELSE IdentityOrder>>

\* Bytes of the feature report: the three low bytes of each u32 are any of
\* TripleBytes, the high byte (which to_trip drops) any of HighBytes.
TripleBytes == (0 .. MaxByte) \cup {255}
HighBytes == {0, 127}
Triples == TripleBytes \X TripleBytes \X TripleBytes

Report(t1, t2, h) ==
    [i \in 44 .. 51 |->
        IF i = 47 THEN h[1]
        ELSE IF i = 51 THEN h[2]
        ELSE IF i < 47 THEN t1[i - 43]
        ELSE t2[i - 47]]

Reports == {Report(t1, t2, h) : t1 \in Triples, t2 \in Triples,
                                h \in HighBytes \X HighBytes}

ReportSamples == {Report(<<1, 2, 0>>, <<0, 0, 0>>, <<0, 0>>),
                  Report(<<2, 1, 0>>, <<0, 2, 1>>, <<127, 0>>)}

ValidOrders == {t \in (0 .. 2) \X (0 .. 2) \X (0 .. 2) : Valid(t)}

UsbOnly == UNCHANGED <<mainVars, dramVars, ledVars>>

\* A `?` returned the error of a HID transfer.
UsbFail ==
    /\ uPc' = "io_error"
    /\ UNCHANGED <<uRep, bo1, bo2, effect_mask, uCol, uStrip, uLog, uCalls>>

\* send64(dev, a, b, c) during call n (0: inside new, before its call)
Send64(n, a, b, c) == [op |-> "send64", call |-> n, a |-> a, b |-> b, c |-> c]

\* HidApi::new, open_path, send64(0x60), get64, parse_byteorders
UsbProbe ==
    /\ uPc = "probe"
    /\ \/ UsbFail
       \/ /\ uLog' = Append(uLog, Send64(0, 96, 0, 0))
          /\ bo1' = ParseByteorders(uRep)[1]
          /\ bo2' = ParseByteorders(uRep)[2]
          /\ uPc' = "reset"
          /\ UNCHANGED <<uRep, effect_mask, uCol, uStrip, uCalls>>
    /\ UsbOnly

\* led_count_to_enum(count)
LedCountToEnum(count) ==
    IF count <= 32 THEN 0
    ELSE IF count <= 64 THEN 1
    ELSE IF count <= 256 THEN 2
    ELSE IF count <= 512 THEN 3
    ELSE 4

\* The register writes of new after the byte orders are parsed, set_led_counts
\* included.
ResetReports ==
    [k \in 1 .. 8 |-> Send64(0, 31 + k, 0, 0)]
    \o <<Send64(0, DisableReg, 0, 0), Send64(0, 52, 0, 0)>>
    \o [k \in 1 .. 3 |-> Send64(0, 143 + k, 0, 0)]
    \o <<Send64(0, ApplyReg, 255, 7), Send64(0, 49, 0, 0)>>
    \o <<Send64(0, 52,
                (LedCountToEnum(DefaultLeds) * 16) + LedCountToEnum(DefaultLeds),
                LedCountToEnum(DefaultLeds))>>

StripCall(hdr, bo, num_leds, ret) ==
    [hdr |-> hdr, bo |-> bo, num_leds |-> num_leds, offset_bytes |-> 0,
     leds_left |-> num_leds, ret |-> ret]

\* self.effect_mask |= 0x01 | 0x02 | 0x08 | 0x10; self.effect_mask |= 0x10;
StartMask(mask) == BitOr(BitOr(mask, 27), 16)

\* The first statements of set_led_colour(r, g, b), up to the call of
\* stream_strip_solid for the third bus.
BeginCall(mask, col) ==
    /\ effect_mask' = StartMask(mask)
    /\ uCol' = col
    /\ uStrip' = StripCall(HDR_DLED3_RGB, bo2, DefaultLeds, "mask3")
    /\ uPc' = "strip"
    /\ uCalls' = uCalls + 1

\* The rest of new: the register writes, the struct with effect_mask 0, and the
\* call x.set_led_colour(0, 0, 0).
UsbReset ==
    /\ uPc = "reset"
    /\ \/ UsbFail
       \/ /\ uLog' = uLog \o ResetReports
          /\ BeginCall(0, <<0, 0, 0>>)
          /\ UNCHANGED <<uRep, bo1, bo2>>
    /\ UsbOnly

\* set_led_colour(r, g, b) on the constructed driver.  A call that returned an
\* error leaves the driver as it was; an error inside new leaves no driver.
UsbCall ==
    /\ uPc = "ready" \/ (uPc = "io_error" /\ uCalls >= 2)
    /\ uCalls < MaxUsbCalls
    /\ \E col \in ColourSamples : BeginCall(effect_mask, col)
    /\ UNCHANGED <<uRep, bo1, bo2, uLog>>
    /\ UsbOnly

LedsInPktWhole(leds_left) == LEDS_PER_PACKET

\* leds_left.min(LEDS_PER_PACKET)
LedsInPkt(leds_left) ==
    IF leds_left < LEDS_PER_PACKET THEN leds_left ELSE LEDS_PER_PACKET

Max3(t) ==
    IF t[1] >= t[2] /\ t[1] >= t[3] THEN t[1]
    ELSE IF t[2] >= t[3] THEN t[2] ELSE t[3]

\* The packet of stream_strip_solid for leds_in_pkt LEDs at offset_bytes; `top`
\* is the highest index of buf the LED loop writes.
StripPacket(n, hdr, bo, offset_bytes, leds_in_pkt, col) ==
    [op |-> "strip",
     call |-> n,
     leds |-> leds_in_pkt,
     top |-> 5 + (leds_in_pkt - 1) * 3 + Max3(bo),
     buf |-> [j \in 0 .. PacketLen - 1 |->
                 IF j = 0 THEN RID
                 ELSE IF j = 1 THEN hdr
                 ELSE IF j = 2 THEN offset_bytes % 256
                 ELSE IF j = 3 THEN (offset_bytes \div 256) % 256
                 ELSE IF j = 4 THEN (leds_in_pkt * 3) % 256
                 ELSE IF (j - 5) \div 3 >= leds_in_pkt THEN 0
                 ELSE IF (j - 5) % 3 = bo[3] THEN col[3]
                 ELSE IF (j - 5) % 3 = bo[2] THEN col[2]
                 ELSE IF (j - 5) % 3 = bo[1] THEN col[1]
                 ELSE 0]]

\* stream_strip_solid: one turn of the while loop, or its exit.
UsbStrip ==
    /\ uPc = "strip"
    /\ IF uStrip.leds_left > 0
          THEN \/ UsbFail
               \/ LET leds_in_pkt == LedsInPkt(uStrip.leds_left) IN
                  /\ uLog' = Append(uLog,
                         StripPacket(uCalls, uStrip.hdr, uStrip.bo,
                                     uStrip.offset_bytes, leds_in_pkt, uCol))
                  /\ uStrip' = [uStrip EXCEPT
                         !.offset_bytes = @ + leds_in_pkt * 3,
                         !.leds_left = @ - leds_in_pkt]
                  /\ UNCHANGED <<uPc, uRep, bo1, bo2, effect_mask, uCol, uCalls>>
          ELSE /\ uPc' = uStrip.ret
               /\ UNCHANGED <<uRep, bo1, bo2, effect_mask, uCol, uStrip, uLog,
                              uCalls>>
    /\ UsbOnly

\* send64(dev, 0x32, self.effect_mask, 0x00) after a strip, and what follows it
\* up to the next transfer.
UsbMask ==
    /\ uPc \in {"mask3", "mask2", "mask1", "mask_led3"}
    /\ \/ UsbFail
       \/ /\ uLog' = Append(uLog, Send64(uCalls, DisableReg, effect_mask, 0))
          /\ IF uPc = "mask3"
                THEN /\ effect_mask' = BitOr(effect_mask, 2)
                     /\ uStrip' = StripCall(HDR_DLED2_RGB, bo2, DefaultLeds, "mask2")
                     /\ uPc' = "strip"
                ELSE IF uPc = "mask2"
                THEN /\ effect_mask' = BitOr(effect_mask, 1)
                     /\ uStrip' = StripCall(HDR_DLED1_RGB, bo1, DefaultLeds, "mask1")
                     /\ uPc' = "strip"
                ELSE IF uPc = "mask1"
                THEN /\ uStrip' = StripCall(LED3, bo1, 1, "mask_led3")
                     /\ uPc' = "strip"
                     /\ UNCHANGED effect_mask
                ELSE /\ uPc' = "effect"
                     /\ UNCHANGED <<effect_mask, uStrip>>
          /\ UNCHANGED <<uRep, bo1, bo2, uCol, uCalls>>
    /\ UsbOnly

\* PktEffect::for_led(LED3, 0x5711, RID).with_effect_type(STATIC)
\*     .with_brightness(0xFF, 0x00).with_color0_rgb(r, g, b).to_bytes()
EffectPacket(n, col) ==
    [op |-> "effect",
     call |-> n,
     buf |-> [j \in 0 .. PacketLen - 1 |->
                 IF j = 0 THEN RID
                 ELSE IF j = 1 THEN (32 + LED3) % 256
                 ELSE IF j = 2 THEN 2 ^ LED3
                 ELSE IF j = 11 THEN 1
                 ELSE IF j = 12 THEN 255
                 ELSE IF j = 14 THEN col[3]
                 ELSE IF j = 15 THEN col[2]
                 ELSE IF j = 16 THEN col[1]
                 ELSE 0]]

UsbEffect ==
    /\ uPc = "effect"
    /\ \/ UsbFail
       \/ /\ uLog' = Append(uLog, EffectPacket(uCalls, uCol))
          /\ uPc' = "apply"
          /\ UNCHANGED <<uRep, bo1, bo2, effect_mask, uCol, uStrip, uCalls>>
    /\ UsbOnly

\* send64(dev, 0x28, 0xff, 0x00); Ok(())
UsbApply ==
    /\ uPc = "apply"
    /\ \/ UsbFail
       \/ /\ uLog' = Append(uLog, Send64(uCalls, ApplyReg, 255, 0))
          /\ uPc' = "ready"
          /\ UNCHANGED <<uRep, bo1, bo2, effect_mask, uCol, uStrip, uCalls>>
    /\ UsbOnly

UsbStart(reports) ==
    /\ MainOff
    /\ DramIdle
    /\ LedIdle
    /\ uPc = "probe"
    /\ uRep \in reports
    /\ bo1 = IdentityOrder
    /\ bo2 = IdentityOrder
    /\ effect_mask = 0
    /\ uCol = <<0, 0, 0>>
    /\ uStrip = NoStrip
    /\ uLog = <<>>
    /\ uCalls = 0

\* Fusion2Argb::new and the set_led_colour calls after it.
UsbInit == UsbStart(ReportSamples)

UsbNext ==
    \/ UsbProbe
    \/ UsbReset
    \/ UsbCall
    \/ UsbStrip
    \/ UsbMask
    \/ UsbEffect
    \/ UsbApply

UsbSpec == UsbInit /\ [][UsbNext]_vars

\* parse_byteorders on every report of Reports.
ParseInit == UsbStart(Reports)

ParseSpec == ParseInit /\ [][UsbProbe]_vars

\* stream_strip_solid alone: any valid byte order, any LED count up to
\* MaxStripLeds.
StripInit ==
    /\ MainOff
    /\ DramIdle
    /\ LedIdle
    /\ uPc = "strip"
    /\ uRep = [i \in 44 .. 51 |-> 0]
    /\ bo1 = IdentityOrder
    /\ bo2 = IdentityOrder
    /\ effect_mask = 0
    /\ uCol \in ColourSamples
    /\ \E bo \in ValidOrders, n \in 0 .. MaxStripLeds :
          uStrip = StripCall(HDR_DLED1_RGB, bo, n, "returned")
    /\ uLog = <<>>
    /\ uCalls = 0

StripSpec == StripInit /\ [][UsbStrip]_vars

\* The command path alone: the HTTP handlers and the supervisor take steps while
\* the spawned tasks are not polled (each new run is aborted before its first
\* poll when the supervisor finds the next command already there).
MaxPubCmd == 9

InitCmd == MainInit(MaxPubCmd, 0) /\ DriversIdle

NextCmd ==
    \/ Handle
    \/ SupStartDefault
    \/ SupRecv

SpecCmd == InitCmd /\ [][NextCmd]_vars

\* The device-driving task is polled whenever it can take a step.
MaxPubLive == 1
MaxEmitLive == 3

InitLive == MainInit(MaxPubLive, MaxEmitLive) /\ DriversIdle

FairSpec ==
    /\ InitLive
    /\ [][Next]_vars
    /\ WF_vars(SrvConnect)
    /\ WF_vars(SrvRecv)
    /\ WF_vars(SrvWrite)

\* The runs alone: the HTTP handlers, the supervisor and the state-machine tasks
\* take steps while the device-driving task is still connecting, so the colour
\* channel fills up.
MaxPubRun == 1
MaxEmitRun == 9

NextRun ==
    \/ Handle
    \/ SupStartDefault
    \/ SupRecv
    \/ SetColour
    \/ FadingStep
    \/ TurningStep
    \/ IdleStep
    \/ IdleWake
    \/ DelayDone

InitRun == MainInit(MaxPubRun, MaxEmitRun) /\ DriversIdle

RunSpec == InitRun /\ [][NextRun]_vars

\* The same with a local clock that shows daytime hours only.
DayHours == 8 .. 17

InitDay == MainInitAt(MaxPubRun, MaxEmitRun, DayHours) /\ DriversIdle

DaySpec == InitDay /\ [][NextRun]_vars

\* The same with a local clock that stands at one hour, any of the 24.
InitHour == \E h \in Hours : MainInitAt(MaxPubRun, MaxEmitRun, {h}) /\ DriversIdle

HourSpec == InitHour /\ [][NextRun]_vars


----------------------------------------------------------------------------
(* Properties *)

TaskIds == 1 .. Len(tasks)
WriteIds == 1 .. Len(writes)

LiveTasks == {i \in TaskIds : tasks[i].status = "live"}

\* The values run i has emitted, in emission order.
OutOf(i) ==
    LET own == SelectSeq(emitted, LAMBDA e : e.run = i) IN
    [j \in 1 .. Len(own) |-> own[j].x]

StrictlyIncreasing(q) == \A a, b \in 1 .. Len(q) : a < b => q[a] < q[b]

Processed == {tasks[i].cmd : i \in TaskIds} \ {0}
Pending == {bq[j].n : j \in 1 .. Len(bq)}

\* C1 (as claimed): the device-driving task only ever receives the value emitted
\* last; a value with newer values queued behind it is never handed to hardware.
C1_LatestValueOnly == srvPc = "write" => cur.behind = 0

\* C2: every run after the first is started by a command, with that command's
\* state and the long-wait flag set, after the abort of the run before it; at
\* most one run is live.
C2_OneLiveRun ==
    /\ Cardinality(LiveTasks) <= 1
    /\ \A i \in TaskIds : i > 1 =>
          /\ tasks[i].cmd \in 1 .. Len(published)
          /\ tasks[i].init = published[tasks[i].cmd]
          /\ tasks[i].initLong
          /\ tasks[i - 1].status # "live"
          /\ tasks[i - 1].cancelledAt >= 0
    /\ \A i, j \in TaskIds : i < j => tasks[i].cmd # tasks[j].cmd

C2_Witness ==
    /\ Len(tasks) = 3
    /\ tasks[2].status = "aborted"
    /\ tasks[3].status = "live"
    /\ tasks[3].init = Fading("Off", One)
    /\ tasks[3].state = Idle("Off")

\* C3 (as claimed): no value of a run is written to hardware after the abort of
\* that run was requested.
C3_NoWriteAfterCancel == \A w \in WriteIds : ~writes[w].stale

\* C3 (amended): a value of a run that is written to hardware after the abort
\* of the run was requested had been accepted by the colour channel before the
\* abort was requested.
C3_OnlyValuesSentBefore ==
    \A w \in WriteIds :
        writes[w].stale => writes[w].n <= tasks[writes[w].run].cancelledAt

C3_Witness == \E w \in WriteIds : writes[w].stale

\* C4 (as claimed): a driver error sends the device-driving task back to
\* construction.
C4_RestartAfterError == [][srvErr' > srvErr => srvPc' = "connect"]_vars

\* C5: hardware sees the emitted values in emission order: the emission numbers
\* of the successful writes never decrease, strictly increase on each device,
\* and every write carries the value emitted under its number.
C5_WriteOrder ==
    /\ \A a, b \in WriteIds : a < b =>
          /\ writes[a].n <= writes[b].n
          /\ writes[a].dev = writes[b].dev => writes[a].n < writes[b].n
    /\ \A w \in WriteIds :
          /\ writes[w].n \in 1 .. Len(emitted)
          /\ emitted[writes[w].n] = [run |-> writes[w].run, x |-> writes[w].x]

C5_Witness ==
    /\ Len(writes) >= 4
    /\ writes[1].run # writes[Len(writes)].run
    /\ writes[1].x # writes[Len(writes)].x

\* C6 (as claimed): every published command is processed or still waiting to be.
C6_EveryCommandProcessed ==
    \A n \in 1 .. Len(published) : n \in Processed \cup Pending

\* C6 (amended): commands are processed in publication order, each by one abort
\* and one start of a run seeded with its state; a command is skipped only when
\* BroadcastCap (8) later commands were published before the supervisor received
\* it.
C6_InOrderUpToCapacity ==
    /\ \A i, j \in TaskIds : i < j => tasks[i].cmd < tasks[j].cmd
    /\ \A i \in TaskIds : i > 1 =>
          /\ tasks[i].cmd \in 1 .. Len(published)
          /\ tasks[i].init = published[tasks[i].cmd]
          /\ tasks[i - 1].status # "live"
    /\ \A j \in 1 .. Len(bq) :
          /\ bq[j].st = published[bq[j].n]
          /\ j > 1 => bq[j].n = bq[j - 1].n + 1
          /\ \A n \in Processed : n < bq[j].n
    /\ \A n \in 1 .. Len(published) :
          /\ n \in Processed \cup Pending \cup dropped
          /\ n \in dropped => n \notin Processed \cup Pending
          /\ n \in dropped => Len(published) >= n + 8

C6_Witness ==
    /\ 1 \in dropped
    /\ \E i \in TaskIds : tasks[i].cmd = 2
    /\ \E i \in TaskIds : tasks[i].cmd = 9

LastWritten == IF writes = <<>> THEN -1 ELSE writes[Len(writes)].x

IdleRun(m) == \E i \in LiveTasks : tasks[i].state = Idle(m)

NoHardware == srvPc \in {"recv", "write"} /\ nMobo + nDram = 0

\* C7: once a run is in Idle(mode), the value written last becomes that mode's
\* terminal value, unless the device-driving task meets a driver error (after
\* which it is gone) or has no controller to write to.
C7_Convergence ==
    /\ IdleRun("On") ~> (LastWritten = One \/ srvPc = "dead" \/ NoHardware)
    /\ IdleRun("Off") ~> (LastWritten = 0 \/ srvPc = "dead" \/ NoHardware)

C7_Witness ==
    /\ IdleRun("Off")
    /\ LastWritten = 0
    /\ srvPc = "recv"

\* C8: a run started by /start_on, up to its first wake-up from Idle: the values
\* it has emitted are strictly increasing; when it is in Idle the mode is On,
\* the last value is 1.0 and the sleep is the long interval.
C8_StartOnRamp ==
    \A i \in LiveTasks :
        (tasks[i].init = Fading("On", One) /\ tasks[i].initLong /\ tasks[i].long) =>
            /\ StrictlyIncreasing(OutOf(i))
            /\ \A j \in 1 .. Len(OutOf(i)) : OutOf(i)[j] <= One
            /\ tasks[i].state.k = "Idle" =>
                  /\ tasks[i].state.mode = "On"
                  /\ Len(OutOf(i)) = 3
                  /\ OutOf(i)[3] = One
                  /\ tasks[i].pc = "idle" => tasks[i].dur = LongWaitMs

C8_Witness ==
    \E i \in LiveTasks :
        /\ tasks[i].init = Fading("On", One)
        /\ tasks[i].state = Idle("On")
        /\ tasks[i].pc = "idle"
        /\ tasks[i].dur = LongWaitMs
        /\ OutOf(i) = <<0, (16 * One) \div 100, One>>

\* C9: a run whose send failed has terminated, and only the first task is the
\* default run: every other task was started by a received command, one task
\* per command received.
C9_NoRelaunch ==
    /\ \A i \in TaskIds : i > 1 => tasks[i].cmd > 0
    /\ tasks # <<>> =>
          Len(tasks) = 1 + Len(published) - Len(bq) - Cardinality(dropped)
    /\ \A i \in TaskIds : tasks[i].status = "failed" =>
          /\ srvPc = "dead"
          /\ tasks[i].state = Gone

C9_Witness ==
    /\ Len(tasks) = 2
    /\ tasks[2].status = "failed"
    /\ tasks[1].status = "failed"
    /\ bq = <<>>

ProbeIds == 1 .. Len(dProbes)
BusWrites == {b \in 1 .. Len(dBus) : dBus[b].op \in {"write_word_data", "write_byte_data"}}

\* C10: construction ends well only after every address answered the three probe
\* registers 0xAD, 0xAE, 0xAF with 0x0D, 0x0E, 0x0F; the first probe byte that
\* differs ends it with the identification error, and the probe read is then the
\* last bus transaction: the enable writes issued are those of the addresses
\* before it.
C10_ProbeGate ==
    /\ dPc = "ok" =>
          \A a \in 1 .. Len(dAddrs) : \A r \in {173, 174, 175} :
              \E p \in ProbeIds :
                  dProbes[p] = [idx |-> a, reg |-> r, res |-> r - 160]
    /\ \A p \in ProbeIds :
          dProbes[p].res # dProbes[p].reg - 160 =>
              /\ p = Len(dProbes)
              /\ dPc = "bad_dram"
              /\ dBad = Len(dBus)
              /\ dBus[Len(dBus)].op = "read_byte_data"
              /\ Cardinality(BusWrites) = 4 * (dProbes[p].idx - 1)
    /\ dPc = "bad_dram" =>
          /\ dProbes # <<>>
          /\ dProbes[Len(dProbes)].res # dProbes[Len(dProbes)].reg - 160

C10_Witness ==
    /\ dPc = "bad_dram"
    /\ dIdx = 2
    /\ dProbes[Len(dProbes)].reg = 175
    /\ dProbes[Len(dProbes)].res = 16
    /\ Cardinality(BusWrites) = 4

C10_WitnessOk == dPc = "ok" /\ Len(dAddrs) = 2 /\ dLedCount = 2

\* Length of the bus log of one address: the selection, the four enable
\* transactions and two transactions per LED.
SegLen == 5 + 2 * lLedCount

BlockWrites == {p \in 1 .. Len(lBus) : lBus[p].op = "write_block_data"}

\* The 16-bit register address with its bytes exchanged.
Swapped(reg) == (reg % 256) * 256 + reg \div 256

\* Transaction p of the bus log is the one a call without error issues at p.
IssuedInOrder(p) ==
    LET a == (p - 1) \div SegLen + 1
        k == (p - 1) % SegLen
        e == lBus[p]
    IN
    IF k = 0 THEN e = [op |-> "set_slave_address", arg |-> lAddrs[a], val |-> 0]
    ELSE IF k = 1 THEN e = [op |-> "write_word_data", arg |-> 0, val |-> Swapped(32800)]
    ELSE IF k = 3 THEN e = [op |-> "write_word_data", arg |-> 0, val |-> Swapped(32928)]
    ELSE IF k \in {2, 4} THEN e = [op |-> "write_byte_data", arg |-> 1, val |-> 1]
    ELSE IF k % 2 = 1
    THEN e = [op |-> "write_word_data", arg |-> 0,
              val |-> Swapped(33024 + 3 * ((k - 5) \div 2))]
    ELSE e = [op |-> "write_block_data", arg |-> 3, val |-> 3,
              data |-> <<lCol[1], lCol[3], lCol[2]>>]

\* C11: a set_led_colour call that met no I/O error has issued, for every
\* configured address in order, the selection of the address, the two enable
\* register writes and, for each i in 0..led_count, one 3-byte block write to
\* 0x8100 + 3i with payload (r, b, g): addresses x led_count block writes in
\* all; no block write ever carries another payload order.
C11_BlockWrites ==
    /\ lPc = "ok" =>
          /\ Len(lBus) = Len(lAddrs) * SegLen
          /\ \A p \in 1 .. Len(lBus) : IssuedInOrder(p)
          /\ Cardinality(BlockWrites) = Len(lAddrs) * lLedCount
    /\ \A p \in BlockWrites :
          /\ lBus[p].data = <<lCol[1], lCol[3], lCol[2]>>
          /\ lBus[p - 1].op = "write_word_data"
          /\ lBus[p - 1].val \in {Swapped(33024 + 3 * i) : i \in 0 .. lLedCount - 1}

C11_Witness ==
    /\ lPc = "ok"
    /\ lAddrs = <<112, 113>>
    /\ lLedCount = 2
    /\ lCol = <<1, 2, 3>>
    /\ Cardinality(BlockWrites) = 4
    /\ lBus[Len(lBus)].data = <<1, 3, 2>>
    /\ lBus[Len(lBus) - 1].val = 768 + 129

\* C19: a bus transaction of set_led_colour that fails ends the call with the
\* error at once: no transaction is issued after it, and the transactions issued
\* before it are those of a call without error up to that point, none undone by
\* a further write.
C19_FailStop ==
    /\ lFailAt > 0 =>
          /\ lPc = "io_error"
          /\ Len(lBus) = lFailAt - 1
          /\ Len(lBus) < Len(lAddrs) * SegLen
          /\ \A p \in 1 .. Len(lBus) : IssuedInOrder(p)
    /\ lPc = "io_error" => lFailAt > 0

C19_Witness ==
    /\ lPc = "io_error"
    /\ lIdx = 2
    /\ lLedCount = 2
    /\ lFailAt = 17
    /\ Cardinality(BlockWrites) = 3
    /\ lBus[16].op = "write_block_data"
    /\ lBus[15].op = "write_word_data"

ByteOrderPermutations == {<<0, 1, 2>>, <<0, 2, 1>>, <<1, 0, 2>>, <<1, 2, 0>>, <<2, 0, 1>>,
                 <<2, 1, 0>>}

\* The triple the driver reads from the u32 at offset i of the report.
TripleAt(i) == <<uRep[i + 2], uRep[i + 1], uRep[i]>>

\* C12: each of the two byte orders kept by the driver is the triple read from
\* its own field of the report when that triple is a permutation of {0, 1, 2}
\* (entries in range and pairwise distinct), and (0, 1, 2) for every other
\* triple, whatever the other field holds.
C12_ByteOrders ==
    uPc = "reset" =>
        /\ bo1 = IF TripleAt(44) \in ByteOrderPermutations THEN TripleAt(44) ELSE <<0, 1, 2>>
        /\ bo2 = IF TripleAt(48) \in ByteOrderPermutations THEN TripleAt(48) ELSE <<0, 1, 2>>

C12_Witness ==
    /\ uPc = "reset"
    /\ TripleAt(44) = <<2, 0, 1>>
    /\ bo1 = <<2, 0, 1>>
    /\ TripleAt(48) = <<1, 1, 0>>
    /\ bo2 = <<0, 1, 2>>
    /\ uRep[47] = 127

RECURSIVE LedsBefore(_)
\* The LEDs carried by the packets of the log before packet k.
LedsBefore(k) == IF k <= 1 THEN 0 ELSE LedsBefore(k - 1) + uLog[k - 1].leds

PacketOffset(k) == uLog[k].buf[2] + 256 * uLog[k].buf[3]

\* C13: stream_strip_solid for N LEDs sends packets of 1 to 19 LEDs whose LED
\* counts sum to N, ceil(N / 19) packets in all; the byte offset of a packet is
\* three times the LEDs of the packets before it, so the offsets strictly
\* increase; every byte of a packet is written at an index below 64.
C13_Chunking ==
    /\ \A k \in 1 .. Len(uLog) :
          /\ uLog[k].leds \in 1 .. 19
          /\ uLog[k].buf[4] = 3 * uLog[k].leds
          /\ PacketOffset(k) = 3 * LedsBefore(k)
          /\ k > 1 => PacketOffset(k) > PacketOffset(k - 1)
          /\ uLog[k].top <= 63
          /\ DOMAIN uLog[k].buf = 0 .. 63
          /\ LedsBefore(k) + uLog[k].leds <= uStrip.num_leds
    /\ uPc = "returned" =>
          /\ Len(uLog) = (uStrip.num_leds + 18) \div 19
          /\ LedsBefore(Len(uLog) + 1) = uStrip.num_leds

C13_Witness ==
    /\ uPc = "returned"
    /\ uStrip.num_leds = 96
    /\ Len(uLog) = 6
    /\ uLog[6].leds = 1
    /\ uLog[6].buf[2] = 29
    /\ uLog[6].buf[3] = 1
    /\ uLog[5].top = 61

\* The writes of the effect mask to register 0x32 made by set_led_colour calls.
MaskWriteIds ==
    {k \in 1 .. Len(uLog) :
        uLog[k].op = "send64" /\ uLog[k].a = 50 /\ uLog[k].call >= 1}

\* The mask writes of the same call as report k that precede it.
MaskWritesBefore(k) ==
    Cardinality({j \in MaskWriteIds : uLog[j].call = uLog[k].call /\ j < k})

StripIds == {k \in 1 .. Len(uLog) : uLog[k].op = "strip"}

MaskBits(m) == {i \in 0 .. 7 : (m \div (2 ^ i)) % 2 = 1}

\* Every call streams bus 3 (0x62), bus 2 (0x59), bus 1 (0x58) in turn, with one
\* write of the mask after the packets of each bus and before the next bus.
C20_MaskAfterEachBus ==
    \A k \in StripIds :
        MaskWritesBefore(k) =
            IF uLog[k].buf[1] = 98 THEN 0
            ELSE IF uLog[k].buf[1] = 89 THEN 1
            ELSE IF uLog[k].buf[1] = 88 THEN 2
            ELSE 3

\* Over any sequence of calls a mask written holds every bit of the masks
\* written before it.
C20_MaskOnlyGrows ==
    \A i, j \in MaskWriteIds :
        i < j => MaskBits(uLog[i].b) \subseteq MaskBits(uLog[j].b)

\* C20 (as claimed): every call streams the three buses in turn and writes the
\* mask after each bus; masks only accumulate bits; and within the first call
\* the write after each bus enables one more bus than the write before it.
C20_ProgressiveMask ==
    /\ C20_MaskAfterEachBus
    /\ C20_MaskOnlyGrows
    /\ \A i, j \in MaskWriteIds :
          (uLog[i].call = 1 /\ uLog[j].call = 1 /\ i < j /\ MaskWritesBefore(j) <= 2)
              => MaskBits(uLog[i].b) # MaskBits(uLog[j].b)

\* What run i is about to become: the state an arm has computed while it still
\* sleeps, else the state as it changed.
Successor(i) == IF tasks'[i].pc = "delay" THEN tasks'[i].pend ELSE tasks'[i].state

\* Run i is live before and after the step and the step is one of its own.
StepOf(i) ==
    /\ tasks[i].status = "live"
    /\ tasks'[i].status = "live"
    /\ tasks'[i] # tasks[i]

\* C14: a fade started at raw = 1.0 holds raw = 1.0, 0.2 or 0.04 only; every
\* Fading step with raw > 0.08 continues the fade of the same mode with a
\* strictly smaller raw, and the first Fading step with raw <= 0.08 goes to
\* Turning of that mode: Turning is reached after at most three Fading steps.
C14_FadeConverges ==
    /\ [](\A i \in LiveTasks :
             tasks[i].state.k = "Fading" =>
                 tasks[i].state.raw \in {One, One \div 5, One \div 25})
    /\ [][\A i \in TaskIds :
             (StepOf(i) /\ tasks[i].state.k = "Fading") =>
                 IF tasks[i].state.raw * 100 > 8 * One
                    THEN /\ Successor(i).k = "SetColourThen"
                         /\ Successor(i).next.k = "Fading"
                         /\ Successor(i).next.mode = tasks[i].state.mode
                         /\ Successor(i).next.raw < tasks[i].state.raw
                    ELSE Successor(i) = Turning(tasks[i].state.mode)]_vars

C14_Witness ==
    \E i \in LiveTasks :
        /\ tasks[i].init = Fading("Off", One)
        /\ tasks[i].state = Turning("Off")
        /\ OutOf(i) = <<One \div 5, One \div 25>>

\* C15: with every hour read in [8, 18), a run in Idle(On) goes to Turning(On)
\* at each wake, from there to SetColourThen(1.0, Idle(On)) and, having sent
\* 1.0, back to Idle(On): it emits 1.0 only and never enters Fading.
C15_Reconfirm ==
    [][\A i \in TaskIds : StepOf(i) =>
          /\ (tasks[i].state = Idle("On") /\ tasks[i].pc = "run") =>
                tasks'[i].state = Idle("On") /\ tasks'[i].pc = "idle"
          /\ (tasks[i].state = Idle("On") /\ tasks[i].pc # "run") =>
                Successor(i) = Turning("On")
          /\ tasks[i].state = Turning("On") =>
                tasks'[i].state = SetColourThen(One, Idle("On"))
          /\ tasks[i].state = SetColourThen(One, Idle("On")) =>
                /\ tasks'[i].state = Idle("On")
                /\ emitted' = Append(emitted, [run |-> i, x |-> One])
          /\ tasks[i].state \in {Idle("On"), Turning("On"),
                                 SetColourThen(One, Idle("On"))} =>
                /\ tasks'[i].state.k # "Fading"
                /\ \A n \in Len(emitted) + 1 .. Len(emitted') : emitted'[n].x = One]_vars

C15_Witness ==
    \E i \in LiveTasks :
        /\ tasks[i].state = Idle("On")
        /\ tasks[i].pc = "idle"
        /\ tasks[i].init = Fading("On", One)
        /\ OutOf(i) = <<0, (16 * One) \div 100, One, One, One>>

\* C16: a task whose abort was requested sends nothing afterwards: every value
\* it has sent was accepted by the colour channel before the abort, it holds no
\* state from which a value could still be sent, and the value it was waiting
\* to send at the abort is not among the values sent since.
C16_NoSendAfterAbort ==
    /\ \A n \in 1 .. Len(emitted) :
          tasks[emitted[n].run].cancelledAt >= 0 =>
              n <= tasks[emitted[n].run].cancelledAt
    /\ \A i \in TaskIds :
          tasks[i].cancelledAt >= 0 =>
              /\ tasks[i].status # "live"
              /\ tasks[i].state = Gone
              /\ tasks[i].pend = Gone
              /\ Len(OutOf(i)) <= tasks[i].cancelledAt

C16_Witness ==
    \E i \in TaskIds :
        /\ tasks[i].status = "aborted"
        /\ tasks[i].unsent = One
        /\ tasks[i].cancelledAt = 8
        /\ Len(chan) = 8
        /\ Len(tasks) > i
        /\ tasks[Len(tasks)].state.k = "SetColourThen"

\* The hour of a clock that stands at one hour.
ClockHour == CHOOSE h \in lim.hours : TRUE

\* C17: at hour h the successor of Idle(m) after waking is Fading(On, 1.0) if
\* 8 <= h < 18 and m = Off, Turning(On) if 8 <= h < 18 and m = On,
\* Fading(Off, 1.0) if h >= 18 and m = On, Turning(Off) if h >= 18 and m = Off,
\* Turning(m) if h < 8; a fade started from Idle goes to the other mode.
C17_IdleRule ==
    [][\A i \in TaskIds :
          (StepOf(i) /\ tasks[i].pc = "idle") =>
              LET m == tasks[i].state.mode
                  h == ClockHour
                  succ == Successor(i)
              IN
              /\ tasks[i].state.k = "Idle"
              /\ (8 <= h /\ h < 18 /\ m = "Off") => succ = Fading("On", One)
              /\ (8 <= h /\ h < 18 /\ m = "On") => succ = Turning("On")
              /\ (h >= 18 /\ m = "On") => succ = Fading("Off", One)
              /\ (h >= 18 /\ m = "Off") => succ = Turning("Off")
              /\ h < 8 => succ = Turning(m)
              /\ succ.k = "Fading" => succ.mode # m]_vars

C17_Witness ==
    \E i \in LiveTasks :
        /\ lim.hours = {18}
        /\ tasks[i].init = Turning("On")
        /\ tasks[i].state = Fading("Off", One)

\* C18: the long interval is used by the first Idle period of a run started
\* with the flag set and by no other Idle period: the flag of a run starts as
\* it was given, is cleared by the first wake from Idle and by nothing else,
\* is never set again, and an Idle period sleeps the long interval exactly when
\* the flag is set; the default run starts with the flag clear.
C18_LongWaitOnce ==
    /\ [](\A i \in LiveTasks :
             /\ tasks[i].pc = "idle" =>
                   tasks[i].dur = IF tasks[i].long THEN 10800000 ELSE 300000
             /\ tasks[i].long => tasks[i].initLong
             /\ tasks[i].initLong <=> tasks[i].cmd > 0)
    /\ [][/\ Len(tasks') > Len(tasks) =>
                tasks'[Len(tasks')].long = tasks'[Len(tasks')].initLong
          /\ \A i \in TaskIds : StepOf(i) =>
                /\ (tasks[i].pc = "idle" /\ tasks'[i].pc # "idle") => ~tasks'[i].long
                /\ ~tasks[i].long => ~tasks'[i].long
                /\ (tasks[i].long /\ ~tasks'[i].long) => tasks[i].pc = "idle"]_vars

C18_Witness ==
    \E i \in LiveTasks :
        /\ tasks[i].initLong
        /\ ~tasks[i].long
        /\ tasks[i].pc = "idle"
        /\ tasks[i].dur = 300000
        /\ Len(OutOf(i)) = 4

\* C21: every run starts from Turning(On), Fading(On, 1.0) or Fading(Off, 1.0);
\* every value emitted lies in [0, 1]; and a run that is in Idle(mode) has
\* emitted a value, the last of which is 1.0 for On and 0.0 for Off.
C21_RangeAndTerminal ==
    /\ \A i \in TaskIds :
          tasks[i].init \in {Turning("On"), Fading("On", One), Fading("Off", One)}
    /\ \A n \in 1 .. Len(emitted) : emitted[n].x >= 0 /\ emitted[n].x <= One
    /\ \A i \in LiveTasks :
          tasks[i].state.k = "Idle" =>
              /\ OutOf(i) # <<>>
              /\ OutOf(i)[Len(OutOf(i))] = IF tasks[i].state.mode = "On" THEN One ELSE 0

C21_Witness ==
    \E i \in LiveTasks :
        /\ tasks[i].init = Turning("On")
        /\ tasks[i].state = Idle("Off")
        /\ tasks[i].pc = "idle"
        /\ OutOf(i) = <<One, One \div 5, One \div 25, 0>>

====
